---- MODULE Spec2Model ----
(***************************************************************************)
(* React bindings of the Pillar SDK (pillarhq/sdk-react).                  *)
(*                                                                         *)
(* The external client (@pillar-ai/sdk) is the environment: a process-wide *)
(* singleton with an event bus.  The bindings are modelled at the          *)
(* granularity React gives them: a state update (setState) is applied when *)
(* it is made, and the passive effects (useEffect) of a render run in a    *)
(* later step, FlushEffects, after which the next render may begin.        *)
(*                                                                         *)
(* The repository holds two variants of the provider: PillarProvider.tsx   *)
(* (helpCenter/publicKey) and unnamed/part_000 (productKey, DOM scanning). *)
(* `variant` says which one a behaviour is about.                          *)
(***************************************************************************)
EXTENDS Integers, Sequences, FiniteSets, Bags, TLC

\* ------------------------------------------------------------------ bounds
\* Number of runs of the provider's init effect (mounts + credential changes).
MaxRuns == 2
\* Number of singleton instances the external client ever creates.
MaxInst == 2

\* Length of the descriptor array given to a registration hook.
MaxDescs == 2
\* Number of times one component's registration effect registers.
MaxToolRuns == 2

\* Number of PillarPanel instances that mount.
MaxPanels == 2

\* Runs of the card effect after which the cards prop stays as it is.
MaxCardRuns == 2

\* Number of roots the card renderers create.
MaxRoots == 2

\* Credential values given to the provider; they are only compared.
Keys == {"pk_A", "pk_B"}
\* A boolean setting and an optional boolean prop (undefined, true or false).
Flag == {"true", "false"}
OptFlag == {"undef"} \cup Flag

\* ------------------------------------------------------------------- state
VARIABLES
  \* --- external client (Pillar singleton) ---
  instance,      \* Pillar.getInstance(): 0 = null, else the instance id
  nInst,         \* instances created so far (ids are 1..nInst)
  sdkState,      \* instance.state of the current singleton
  panelOpen,     \* whether the singleton's panel is open
  sdkScan,       \* the singleton's DOM scanning setting
  listeners,     \* bag of [ev, inst, gen]: callbacks attached with instance.on
  initCalls,     \* number of Pillar.init calls made by the provider
  destroyCalls,  \* number of Pillar.destroy calls made by the provider
  lastCall,      \* last control call forwarded to the singleton, or "none"
  \* --- PillarProvider component ---
  variant,       \* "tsx" (PillarProvider.tsx) or "scan" (unnamed/part_000)
  mounted,       \* a provider instance is mounted
  gen,           \* number of provider instances mounted so far
  creds,         \* the credential props of the current render
  domScanning,   \* the domScanning prop of the current render
  cfgScan,       \* config?.domScanning?.enabled of the current render
  pillar,        \* useState<Pillar | null>: 0 = null
  state,         \* useState<PillarState>
  isPanelOpen,   \* useState(false)
  isDOMScanningEnabled, \* useState(domScanning ?? false)
  initDeps,      \* credentials the init effect last ran with, or "none"
  lcDeps,        \* pillar the [pillar] effects last ran with
  scanDeps,      \* domScanning the DOM scanning effect last ran with
  runs,          \* runs of the init effect: [gen, key, scan, mounted, status];
                 \* status: "pending" (awaiting Pillar.init), "resolved"
                 \* (continued with mounted true), "dropped" (continued with
                 \* mounted false), "rejected", "reused", "threw"
  thrown,        \* error that escaped the bindings, or "none"
  \* --- a descendant component using usePillarTool / usePillarAction ---
  tMounted,      \* the component is mounted
  schemas,       \* the descriptor array of its latest render: [ver, names]
  schemasRef,    \* schemasRef.current
  toolDeps,      \* deps the registration effect last ran with, or <<>>
  unsubscribes,  \* handles held by the cleanup of the effect's last run
  registered,    \* names the effect's last run registered
  handles,       \* handles defineTool returned: [name, index, ver, inst, calls]
  lastExec,      \* what the client's last call of a registered execute ran
  \* --- a descendant <PillarPanel> ---
  pMounted,      \* the component is mounted
  pGen,          \* PillarPanel instances mounted so far; names the container
  hasMounted,    \* hasMounted.current
  panelDeps,     \* deps the mount effect last ran with, or <<>>
  panelMounts,   \* the mountPanelTo calls made: [inst, container, state,
                 \* onMount (by the effect's first run)]
  \* --- the provider's onTask prop ---
  onTask,        \* the onTask prop of the latest render: "undef" or a callback
  onTaskRef,     \* onTaskRef.current
  lastTask,      \* how the last "task:execute" event was handled: [seq, n, cb]
  \* --- the provider's cards prop and its card registration effect ---
  cards,         \* the cards prop of the latest render: "undef" or a mapping
  cardsDep,      \* the cards the card effect last ran with, or "none"
  cardRun,       \* runs of the card effect that registered renderers
  cardRegs,      \* live registerCard registrations: [type, inst, run]
  roots,         \* roots createRoot returned: [container, run, unmounts,
                 \* cleaned (the client called the invocation's cleanup)]
  rootsMap,      \* the roots Map of the effect's last run: <<container, root>>
  \* --- a second instance of the bindings, mounted beside the first ---
  peer,          \* a second PillarProvider: [mounted, n (mounts so far),
                 \* pillar, state, isPanelOpen, lcDeps]
  peerTool,      \* a usePillarTool component below it: [mounted, names,
                 \* deps (<<>> or <<pillar>>), unsubs (its handles)]
  \* --- calls of the functions usePillar() and the context value hand out ---
  taskRegs,      \* pillar.onTask registrations made: [name, inst, live]
  ret,           \* what the last on()/onTask() call returned: [fn, kind, id]
  onCalls,       \* callbacks passed to on(): [attached (number handed to the
                 \* singleton), dropped (some call met no reference)]
  help,          \* the last call of a useHelpPanel helper: [h, arg, sent (the
                 \* calls it made on the singleton)]
  lastEvents     \* the kinds of the last two "ready"/"error" events the
                 \* mounted provider's callbacks were called for, oldest first

toolVars == <<tMounted, schemas, schemasRef, toolDeps, unsubscribes, registered,
              handles, lastExec>>
panelVars == <<pMounted, pGen, hasMounted, panelDeps, panelMounts>>
taskVars == <<onTask, onTaskRef, lastTask>>
childVars == <<toolVars, panelVars, taskVars>>
cardVars == <<cards, cardsDep, cardRun, cardRegs, roots, rootsMap>>
sdkVars == <<instance, nInst, sdkState, panelOpen, sdkScan, listeners,
             initCalls, destroyCalls, lastCall>>
propVars == <<variant, creds, domScanning, cfgScan>>
provVars == <<mounted, gen, pillar, state, isPanelOpen, isDOMScanningEnabled,
              initDeps, lcDeps, scanDeps, runs, thrown>>
peerVars == <<peer, peerTool>>
callVars == <<taskRegs, ret, onCalls, help, lastEvents>>
extVars == <<peerVars, callVars>>
vars == <<sdkVars, propVars, provVars, toolVars, panelVars, taskVars,
         cardVars, extVars>>

\* ----------------------------------------------------------- event bus
\* instance.on(ev, cb) made by provider instance g on singleton i.
L(ev, i, g) == [ev |-> ev, inst |-> i, gen |-> g]

On(b, ev, i, g) == b (+) SetToBag({L(ev, i, g)})

\* An unsubscribe that removes every callback of the event, whoever
\* attached it.
OffAll(b, ev, i, g) ==
  [l \in {x \in DOMAIN b : ~(x.ev = ev /\ x.inst = i)} |-> b[l]]

\* The unsubscribe handle returned by instance.on: removes that one callback.
Off(b, ev, i, g) == b (-) SetToBag({L(ev, i, g)})

\* Number of callbacks of provider instance g for ev on singleton i.
Count(b, ev, i, g) == CopiesIn(L(ev, i, g), b)

\* A state setter only acts on the component instance it belongs to, and only
\* while that instance is mounted (React drops updates of unmounted ones).
Live(g) == mounted /\ g = gen

\* The owner id of the callbacks of the second provider (the ids of the
\* first one's instances are 1..MaxRuns, 0 is a consumer of on()).
PeerGen == MaxRuns + 1

\* a ?? b
Coalesce(a, b) == IF a # "undef" THEN a ELSE b

\* ------------------------------------------------ init effect (initPillar)
\* An initPillar that does not look at its mounted flag.
MountedFlagIgnored(r) == TRUE

\* The closure variable `mounted` of run r of the init effect.
MountedFlag(r) == runs[r].mounted

\* Cleanup of the init effect: mounted = false in the closure of the run
\* being cleaned up (the last one).  Pillar.destroy() is not called.
InitCleanup(rs) ==
  IF Len(rs) > 0 THEN [rs EXCEPT ![Len(rs)].mounted = FALSE] ELSE rs

\* A cleanup that tears the singleton down.
CleanupDestroysSingleton == TRUE

\* Whether the cleanup of the init effect calls Pillar.destroy(): it does not
\* ("We intentionally don't call Pillar.destroy() here").
CleanupDestroys == FALSE

\* instance.on("panel:open", ...) and instance.on("panel:close", ...); the
\* handles these return are dropped, so nothing ever removes them.
PanelSubscribe(b, i, g) == On(On(b, "panel:open", i, g), "panel:close", i, g)

\* An init effect without the try/catch: the failure escapes.
InitNoCatch(flag, g) ==
  /\ state' = state
  /\ thrown' = "init"

\* catch (error) { console.error(...); if (mounted) setState("error") }
InitCatch(flag, g) ==
  /\ state' = IF flag /\ Live(g) THEN "error" ELSE state
  /\ thrown' = thrown

\* What the init effect meets: Pillar.getInstance() throws, returns the
\* singleton, or returns null; Pillar.init may or may not make the instance
\* visible to getInstance before its promise settles.
InitChoices ==
  {"throws"} \cup
  (IF instance # 0 THEN {"reuse"}
   ELSE {"call"} \cup (IF nInst < MaxInst THEN {"callPublish"} ELSE {}))

\* An init whose config value wins over the prop.
InitScanConfigFirst == Coalesce(cfgScan, Coalesce(domScanning, "false"))

\* enabled: domScanning ?? config?.domScanning?.enabled ?? false
InitScanEnabled == Coalesce(domScanning, Coalesce(cfgScan, "false"))

NewRun(st) == [gen |-> gen, key |-> creds, scan |-> InitScanEnabled,
               mounted |-> TRUE, status |-> st]

\* ---------------------------------------------------- ready/error effect
\* pillar.on("ready", () => setState("ready")); pillar.on("error", ...)
ReadyErrorSetup(b, p, g) ==
  IF p # 0 THEN On(On(b, "ready", p, g), "error", p, g) ELSE b

\* A cleanup that leaves the callbacks subscribed.
ReadyErrorNoCleanup(b, p, g) == b

\* return () => { unsubscribe(); unsubscribeError(); }
ReadyErrorCleanup(b, p, g) ==
  IF p # 0 THEN Off(Off(b, "ready", p, g), "error", p, g) ELSE b

\* ---------------------------------------------------- DOM scanning effect
\* if (pillar) { if (domScanning !== undefined) { ... } }
ScanSyncApplies == pillar # 0 /\ domScanning # "undef"

\* --------------------------------------------------------------- provider
EffectsPending ==
  mounted /\ (initDeps # creds \/ lcDeps # pillar \/ scanDeps # domScanning
              \/ cardsDep # cards)

\* ---------------------------------------------- card registration effect
\* The cards mappings a provider is given, and the card types of each.
CardMaps == {"undef", "cardsA", "cardsB"}

CardTypes(m) ==
  CASE m = "cardsA" -> {"confirm"}
    [] m = "cardsB" -> {"confirm", "form"}
    [] OTHER -> {}

\* DOM elements the client hands to a renderer.
Containers == {"c1", "c2"}

\* roots.forEach((root) => root.unmount()) over the Map m.
UnmountAll(rs, m) ==
  [i \in 1..Len(rs) |->
     IF \E e \in m : e[2] = i THEN [rs[i] EXCEPT !.unmounts = @ + 1]
     ELSE rs[i]]

\* The card effect is due: its deps [pillar, cards] changed.
CardsDue == lcDeps # pillar \/ cardsDep # cards

\* The card effect in a flush of the provider's effects: the cleanup of its
\* last run (unsubscribers, then the roots of the Map), then
\* if (!pillar || !cards) return; and one registerCard per entry.
CardsEffect ==
  IF CardsDue
  THEN /\ roots' = UnmountAll(roots, rootsMap)
       /\ rootsMap' = {}
       /\ cardsDep' = cards
       /\ IF pillar # 0 /\ cards # "undef"
          THEN /\ cardRun' = cardRun + 1
               /\ cardRegs' = {[type |-> t, inst |-> pillar, run |-> cardRun + 1] :
                                 t \in CardTypes(cards)}
          ELSE /\ cardRun' = cardRun
               /\ cardRegs' = {}
       /\ cards' = cards
  ELSE UNCHANGED cardVars

\* The provider unmounts: the cleanup of the card effect's last run.
CardsTeardown ==
  /\ roots' = UnmountAll(roots, rootsMap)
  /\ rootsMap' = {} /\ cardRegs' = {}
  /\ cardsDep' = "none"
  /\ UNCHANGED <<cards, cardRun>>

\* A provider instance mounts: its card effect has not run.
CardsReset ==
  /\ cardsDep' = "none"
  /\ UNCHANGED <<cards, cardRun, cardRegs, roots, rootsMap>>

\* The parent gives the provider another cards prop.
ChangeCards(m) ==
  /\ ~EffectsPending /\ m \in CardMaps /\ m # cards
  /\ cardRun < MaxCardRuns
  /\ cards' = m
  /\ UNCHANGED <<sdkVars, propVars, provVars, childVars, cardsDep, cardRun,
                 cardRegs, roots, rootsMap>>
  /\ UNCHANGED extVars

\* The client calls a registered renderer with container c:
\* const root = createRoot(container); roots.set(container, root).
RenderCard(c) ==
  /\ c \in Containers /\ Len(roots) < MaxRoots
  /\ \E g \in cardRegs : g.inst = instance /\ g.run = cardRun
  /\ roots' = Append(roots, [container |-> c, run |-> cardRun, unmounts |-> 0,
                             cleaned |-> FALSE])
  /\ rootsMap' = {e \in rootsMap : e[1] # c} \cup {<<c, Len(roots) + 1>>}
  /\ UNCHANGED <<sdkVars, propVars, provVars, childVars, cards, cardsDep,
                 cardRun, cardRegs>>
  /\ UNCHANGED extVars

\* The client calls the cleanup that invocation i of a renderer returned:
\* const existingRoot = roots.get(container); if (existingRoot) {
\* existingRoot.unmount(); roots.delete(container) }.  The Map of an earlier
\* run of the effect was cleared by that run's cleanup.
CardCleanup(i) ==
  /\ i \in 1..Len(roots) /\ ~roots[i].cleaned
  /\ LET hit == IF roots[i].run = cardRun
                THEN {e \in rootsMap : e[1] = roots[i].container}
                ELSE {}
     IN /\ roots' = [UnmountAll(roots, hit) EXCEPT ![i].cleaned = TRUE]
        /\ rootsMap' = rootsMap \ hit
  /\ UNCHANGED <<sdkVars, propVars, provVars, childVars, cards, cardsDep,
                 cardRun, cardRegs>>
  /\ UNCHANGED extVars

\* The props a provider of the variant can be given.
ScanProps == IF variant = "scan" THEN OptFlag ELSE {"undef"}

\* <PillarProvider ...> mounts: fresh component state, effects not yet run.
Mount(k, d, c) ==
  /\ ~mounted /\ Len(runs) < MaxRuns
  /\ mounted' = TRUE /\ gen' = gen + 1
  /\ creds' = k /\ domScanning' = d /\ cfgScan' = c
  /\ pillar' = 0 /\ state' = "uninitialized" /\ isPanelOpen' = FALSE
  /\ isDOMScanningEnabled' = Coalesce(d, "false")
  /\ initDeps' = "none" /\ lcDeps' = 0 /\ scanDeps' = "none"
  /\ UNCHANGED <<sdkVars, variant, runs, thrown>>
  /\ UNCHANGED childVars
  /\ CardsReset
  /\ lastEvents' = <<>>
  /\ UNCHANGED <<peerVars, taskRegs, ret, onCalls, help>>

\* Re-render with other credentials (helpCenter/publicKey or productKey).
ChangeCreds(k) ==
  /\ mounted /\ ~EffectsPending /\ k # creds /\ Len(runs) < MaxRuns
  /\ creds' = k
  /\ UNCHANGED <<sdkVars, variant, domScanning, cfgScan, provVars>>
  /\ UNCHANGED childVars
  /\ UNCHANGED cardVars
  /\ UNCHANGED extVars

\* Re-render with another domScanning prop.
ChangeDomScanning(d) ==
  /\ mounted /\ ~EffectsPending /\ d # domScanning
  /\ domScanning' = d
  /\ UNCHANGED <<sdkVars, variant, creds, cfgScan, provVars>>
  /\ UNCHANGED childVars
  /\ UNCHANGED cardVars
  /\ UNCHANGED extVars

\* -------------------------------------------------- task handler effect
\* pillar.on("task:execute", (task) => onTaskRef.current?.(task))
TaskSetup(b, p, g) == IF p # 0 THEN On(b, "task:execute", p, g) ELSE b

\* return unsubscribe
TaskCleanup(b, p, g) == IF p # 0 THEN Off(b, "task:execute", p, g) ELSE b

\* The passive effects of the last render: the cleanups of the effects whose
\* deps changed, then their setups, in declaration order.
FlushEffects ==
  /\ EffectsPending
  /\ \E c \in (IF initDeps # creds THEN InitChoices ELSE {"skip"}) :
       LET lcDue == lcDeps # pillar
           scanDue == lcDue \/ scanDeps # domScanning
           instAfter == IF c = "callPublish" THEN nInst + 1 ELSE instance
           rs1 == IF c # "skip" /\ initDeps # "none" THEN InitCleanup(runs)
                  ELSE runs
           ls1 == IF lcDue
                  THEN TaskCleanup(ReadyErrorCleanup(listeners, lcDeps, gen),
                                   lcDeps, gen)
                  ELSE listeners
           ls2 == IF c = "reuse" THEN PanelSubscribe(ls1, instance, gen) ELSE ls1
           ls3 == IF lcDue
                  THEN TaskSetup(ReadyErrorSetup(ls2, pillar, gen), pillar, gen)
                  ELSE ls2
           sc1 == CASE c = "reuse" /\ domScanning # "undef" -> domScanning
                    [] c = "callPublish" -> InitScanEnabled
                    [] OTHER -> sdkScan
       IN /\ listeners' = ls3
          /\ lcDeps' = pillar
          /\ initDeps' = creds
          /\ scanDeps' = domScanning
          /\ runs' = CASE c = "skip" -> rs1
                       [] c = "throws" -> Append(rs1, NewRun("threw"))
                       [] c = "reuse" -> Append(rs1, NewRun("reused"))
                       [] OTHER -> Append(rs1, NewRun("pending"))
          /\ pillar' = IF c = "reuse" THEN instance ELSE pillar
          /\ IF c = "throws" THEN InitCatch(TRUE, gen)
             ELSE /\ state' = IF c = "reuse" THEN sdkState ELSE state
                  /\ thrown' = thrown
          /\ initCalls' = IF c \in {"call", "callPublish"} THEN initCalls + 1
                          ELSE initCalls
          /\ IF c = "callPublish"
             THEN /\ instance' = nInst + 1 /\ nInst' = nInst + 1
                  /\ sdkState' = "initializing" /\ panelOpen' = FALSE
             ELSE UNCHANGED <<instance, nInst, sdkState, panelOpen>>
          /\ sdkScan' = IF scanDue /\ ScanSyncApplies /\ pillar = instAfter
                        THEN domScanning ELSE sc1
          /\ isDOMScanningEnabled' = IF scanDue /\ ScanSyncApplies
                                     THEN domScanning ELSE isDOMScanningEnabled
  /\ UNCHANGED <<destroyCalls, lastCall, propVars, mounted, gen, isPanelOpen>>
  /\ UNCHANGED childVars
  /\ CardsEffect
  /\ UNCHANGED extVars

\* The promise of Pillar.init made by run r resolves; initPillar continues.
ResolveInit(r) ==
  /\ r \in 1..Len(runs) /\ runs[r].status = "pending"
  /\ instance # 0 \/ nInst < MaxInst
  /\ LET created == instance = 0
         inst == IF created THEN nInst + 1 ELSE instance
         g == runs[r].gen
     IN \E s \in (IF created THEN {"initializing", "ready"} ELSE {sdkState}) :
          /\ instance' = inst
          /\ nInst' = IF created THEN nInst + 1 ELSE nInst
          /\ sdkState' = s
          /\ panelOpen' = IF created THEN FALSE ELSE panelOpen
          /\ sdkScan' = IF created THEN runs[r].scan ELSE sdkScan
          /\ IF MountedFlag(r)
             THEN /\ pillar' = IF Live(g) THEN inst ELSE pillar
                  /\ state' = IF Live(g) THEN s ELSE state
                  /\ listeners' = PanelSubscribe(listeners, inst, g)
             ELSE UNCHANGED <<pillar, state, listeners>>
  /\ runs' = [runs EXCEPT ![r].status =
                           IF MountedFlag(r) THEN "resolved" ELSE "dropped"]
  /\ UNCHANGED <<initCalls, destroyCalls, lastCall, propVars, mounted, gen,
                 isPanelOpen, isDOMScanningEnabled, initDeps, lcDeps,
                 scanDeps, thrown>>
  /\ UNCHANGED childVars
  /\ UNCHANGED cardVars
  /\ UNCHANGED extVars

\* The promise of Pillar.init made by run r rejects; initPillar's catch runs.
RejectInit(r) ==
  /\ r \in 1..Len(runs) /\ runs[r].status = "pending"
  /\ InitCatch(MountedFlag(r), runs[r].gen)
  /\ runs' = [runs EXCEPT ![r].status = "rejected"]
  /\ UNCHANGED <<sdkVars, propVars, mounted, gen, pillar, isPanelOpen,
                 isDOMScanningEnabled, initDeps, lcDeps, scanDeps>>
  /\ UNCHANGED childVars
  /\ UNCHANGED cardVars
  /\ UNCHANGED extVars

\* The provider unmounts: the cleanups of its effects run.
Unmount ==
  /\ mounted /\ ~EffectsPending
  /\ mounted' = FALSE
  /\ runs' = InitCleanup(runs)
  /\ IF CleanupDestroys /\ instance # 0
     THEN /\ destroyCalls' = destroyCalls + 1
          /\ instance' = 0 /\ sdkState' = "uninitialized"
          /\ panelOpen' = FALSE /\ sdkScan' = "false"
          /\ listeners' = EmptyBag
     ELSE /\ listeners' = TaskCleanup(
                             ReadyErrorCleanup(listeners, lcDeps, gen),
                             lcDeps, gen)
          /\ UNCHANGED <<destroyCalls, instance, sdkState, panelOpen, sdkScan>>
  /\ pillar' = 0 /\ state' = "uninitialized" /\ isPanelOpen' = FALSE
  /\ isDOMScanningEnabled' = "false"
  /\ initDeps' = "none" /\ lcDeps' = 0 /\ scanDeps' = "none"
  /\ UNCHANGED <<nInst, initCalls, lastCall, propVars, gen, thrown>>
  /\ UNCHANGED childVars
  /\ CardsTeardown
  /\ lastEvents' = <<>>
  /\ UNCHANGED <<peerVars, taskRegs, ret, onCalls, help>>

\* ------------------------------------------------- the external client
\* The provider's callback for ev ran: ev is now the latest event received.
Received(es, ev) == IF Len(es) = 0 THEN <<ev>> ELSE <<es[Len(es)], ev>>

\* The singleton emits "ready" or "error": its state changes and every
\* callback attached for the event runs.
SdkEmit(ev) ==
  /\ instance # 0 /\ sdkState # ev
  /\ sdkState' = ev
  /\ state' = IF mounted /\ Count(listeners, ev, instance, gen) > 0
              THEN ev ELSE state
  /\ UNCHANGED <<instance, nInst, panelOpen, sdkScan, listeners, initCalls,
                 destroyCalls, lastCall, propVars, mounted, gen, pillar,
                 isPanelOpen, isDOMScanningEnabled, initDeps, lcDeps,
                 scanDeps, runs, thrown>>
  /\ peer' = IF peer.mounted /\ Count(listeners, ev, instance, PeerGen) > 0
             THEN [peer EXCEPT !.state = ev] ELSE peer
  /\ lastEvents' = IF mounted /\ Count(listeners, ev, instance, gen) > 0
                   THEN Received(lastEvents, ev) ELSE lastEvents
  /\ UNCHANGED childVars
  /\ UNCHANGED cardVars
  /\ UNCHANGED <<peerTool, taskRegs, ret, onCalls, help>>

\* The singleton's panel opens or closes and "panel:open"/"panel:close" fires.
SdkPanel(b) ==
  /\ instance # 0 /\ panelOpen # b
  /\ panelOpen' = b
  /\ isPanelOpen' =
       IF mounted /\ Count(listeners, IF b THEN "panel:open" ELSE "panel:close",
                           instance, gen) > 0
       THEN b ELSE isPanelOpen
  /\ UNCHANGED <<instance, nInst, sdkState, sdkScan, listeners, initCalls,
                 destroyCalls, lastCall, propVars, mounted, gen, pillar, state,
                 isDOMScanningEnabled, initDeps, lcDeps, scanDeps, runs,
                 thrown>>
  /\ peer' = IF peer.mounted
                /\ Count(listeners, IF b THEN "panel:open" ELSE "panel:close",
                         instance, PeerGen) > 0
             THEN [peer EXCEPT !.isPanelOpen = b] ELSE peer
  /\ UNCHANGED childVars
  /\ UNCHANGED cardVars
  /\ UNCHANGED <<peerTool, callVars>>

\* The embedding application calls Pillar.destroy() itself.
AppDestroy ==
  /\ instance # 0
  /\ instance' = 0 /\ sdkState' = "uninitialized" /\ panelOpen' = FALSE
  /\ sdkScan' = "false"
  /\ listeners' = [l \in {x \in DOMAIN listeners : x.inst # instance}
                     |-> listeners[l]]
  /\ UNCHANGED <<nInst, initCalls, destroyCalls, lastCall, propVars, provVars>>
  /\ UNCHANGED childVars
  /\ UNCHANGED cardVars
  /\ UNCHANGED extVars

\* ------------------------------------------------------- control methods
\* The control callbacks of the context value.
Methods ==
  {"open", "close", "toggle", "openArticle", "openCategory", "search",
   "navigate", "setTheme", "setTextSelectionEnabled", "on"}
  \cup (IF variant = "scan" THEN {"setDOMScanningEnabled", "scanPage"} ELSE {})

\* Callbacks a consumer may hold on one event of one singleton through on().
MaxOn == 1

\* pillar?.m(...): the call reaches the singleton when the reference is set.
Forward(m) == IF pillar # 0 THEN m ELSE lastCall

\* An on() that keeps a callback it could not attach and hands it to the
\* singleton that is there.
OnAttachLater(b, p) ==
  IF p # 0 THEN On(b, "ready", p, 0)
  ELSE IF instance # 0 THEN On(b, "ready", instance, 0) ELSE b

\* pillar?.on(event, callback): the callback is attached to the singleton
\* the reference holds; with no reference nothing is attached or kept.
OnAttach(b, p) == IF p # 0 THEN On(b, "ready", p, 0) ELSE b

\* An on() that hides the handle of the singleton behind a function of its own.
OnReturnWrapped(p) == "noop"

\* return pillar?.on(event, callback) ?? (() => {})
OnReturn(p) == IF p # 0 THEN "external" ELSE "noop"

\* A descendant calls control method m of the context value (e: the boolean
\* argument of the feature toggles).
Control(m, e) ==
  /\ mounted /\ m \in Methods
  /\ lastCall' = Forward(m)
  /\ IF m = "setDOMScanningEnabled"
     THEN /\ sdkScan' = IF pillar # 0 /\ pillar = instance THEN e ELSE sdkScan
          /\ isDOMScanningEnabled' = e
     ELSE UNCHANGED <<sdkScan, isDOMScanningEnabled>>
  /\ IF m = "on"
     THEN /\ pillar # 0 => Count(listeners, "ready", pillar, 0) < MaxOn
          /\ listeners' = OnAttach(listeners, pillar)
          /\ ret' = [fn |-> "on", kind |-> OnReturn(pillar), id |-> 0]
          /\ onCalls' = IF pillar # 0
                        THEN [onCalls EXCEPT !.attached = @ + 1]
                        ELSE [onCalls EXCEPT !.dropped = TRUE]
     ELSE UNCHANGED <<listeners, ret, onCalls>>
  /\ UNCHANGED <<instance, nInst, sdkState, panelOpen, initCalls, destroyCalls,
                 propVars, mounted, gen, pillar, state, isPanelOpen, initDeps,
                 lcDeps, scanDeps, runs, thrown>>
  /\ UNCHANGED childVars
  /\ UNCHANGED cardVars
  /\ UNCHANGED <<peerVars, taskRegs, help, lastEvents>>

\* ------------------------------------------------------ usePillarContext
\* A usePillarContext without the check: the null context is handed on.
usePillarContextUnchecked(hasContext) == "none"

\* if (!context) throw new Error("usePillarContext must be used within a
\* PillarProvider"): the error raised for a context value, or "none".
usePillarContext(hasContext) == IF hasContext THEN "none" ELSE "usage"

\* The hooks and components that start with usePillarContext().
Hooks == {"usePillarContext", "usePillar", "useHelpPanel", "usePillarTool",
          "usePillarAction", "PillarPanel"}

\* What hook h does with a null context it was handed: usePillarContext
\* returns it, usePillar spreads it, the others destructure it.
UseNull(h) ==
  IF h \in {"usePillarContext", "usePillar"} THEN "none" ELSE "TypeError"

\* A component using hook h renders with no PillarProvider above it.
UseOutside(h) ==
  /\ thrown = "none"
  /\ thrown' = IF usePillarContext(FALSE) # "none" THEN usePillarContext(FALSE)
               ELSE UseNull(h)
  /\ UNCHANGED <<sdkVars, propVars, mounted, gen, pillar, state, isPanelOpen,
                 isDOMScanningEnabled, initDeps, lcDeps, scanDeps, runs,
                 toolVars>>
  /\ UNCHANGED <<panelVars, taskVars>>
  /\ UNCHANGED cardVars
  /\ UNCHANGED extVars

\* ------------------------------------------- usePillarTool / usePillarAction
\* Tool names, as sequences of characters.
Names == {<<"a">>, <<"b">>, <<"a", ",", "b">>}

\* The descriptor arrays of a render: the names, and the render (ver) whose
\* closures the execute callbacks are.
RECURSIVE SeqsUpTo(_)
SeqsUpTo(n) ==
  IF n = 0 THEN {<<>>}
  ELSE LET S == SeqsUpTo(n - 1)
       IN S \cup {Append(q, x) : q \in {t \in S : Len(t) = n - 1}, x \in Names}

Descs == [ver : {1, 2}, names : SeqsUpTo(MaxDescs) \ {<<>>}]

NoSchemas == [ver |-> 1, names |-> <<>>]

\* schemas.map((s) => s.name).join(",")
RECURSIVE Join(_)
Join(ns) ==
  IF Len(ns) = 0 THEN <<>>
  ELSE IF Len(ns) = 1 THEN ns[1]
  ELSE ns[1] \o <<",">> \o Join(Tail(ns))

\* [pillar, toolNamesKey]
ToolDepsNow == <<pillar, Join(schemas.names)>>

ToolEffectPending == tMounted /\ toolDeps # ToolDepsNow

\* schemasRef.current = schemas, on every render.
RefAssign(ds) == ds

\* A cleanup that calls nothing.
ToolCleanupSkipped(hs, us) == hs

\* A cleanup that calls one handle per tool name.
ToolCleanupByName(hs, us) ==
  [h \in 1..Len(hs) |->
     IF /\ \E j \in 1..Len(us) : us[j] = h
        /\ ~\E j \in 1..Len(us) : us[j] < h /\ hs[us[j]].name = hs[h].name
     THEN [hs[h] EXCEPT !.calls = @ + 1]
     ELSE hs[h]]

\* unsubscribes.forEach((unsub) => unsub()): each handle is called once.
ToolCleanup(hs, us) ==
  [h \in 1..Len(hs) |->
     IF \E j \in 1..Len(us) : us[j] = h
     THEN [hs[h] EXCEPT !.calls = @ + Cardinality({j \in 1..Len(us) : us[j] = h})]
     ELSE hs[h]]

\* A setup that registers the first entry only.
ToolRegisterFirst(hs, ds) ==
  Append(hs, [name |-> ds.names[1], index |-> 1, ver |-> ds.ver,
              inst |-> pillar, calls |-> 0])

\* A setup that registers every entry twice.
ToolRegisterTwice(hs, ds) ==
  hs \o [i \in 1..2 * Len(ds.names) |->
           [name |-> ds.names[(i + 1) \div 2], index |-> (i + 1) \div 2,
            ver |-> ds.ver, inst |-> pillar, calls |-> 0]]

\* schemasRef.current.map((schema, index) => pillar.defineTool({...schema,
\* execute: ...})): one handle per entry of the array.
ToolRegister(hs, ds) ==
  hs \o [i \in 1..Len(ds.names) |->
           [name |-> ds.names[i], index |-> i, ver |-> ds.ver, inst |-> pillar,
            calls |-> 0]]

\* An execute that is the callback the descriptor had when it was registered.
ExecuteCaptured(h) ==
  [h |-> h, ver |-> handles[h].ver, name |-> handles[h].name]

\* Nothing was executed yet.
NoExec == [h |-> 0, ver |-> 0, name |-> <<>>]

\* execute: (input) => schemasRef.current[index].execute(input), for handle h.
Execute(h) ==
  LET i == handles[h].index
  IN IF i <= Len(schemasRef.names)
     THEN [h |-> h, ver |-> schemasRef.ver, name |-> schemasRef.names[i]]
     ELSE [h |-> h, ver |-> 0, name |-> <<"TypeError">>]

\* Effect runs of the component that registered something.
ToolRuns == Cardinality({<<handles[h].ver, handles[h].inst, h - handles[h].index>> :
                           h \in 1..Len(handles)})

\* A component calling usePillarTool(ds) mounts below the provider.
ToolMount(ds) ==
  /\ mounted /\ ~tMounted /\ ToolRuns < MaxToolRuns
  /\ thrown = "none" /\ usePillarContext(mounted) = "none"
  /\ tMounted' = TRUE
  /\ schemas' = ds /\ schemasRef' = RefAssign(ds)
  /\ toolDeps' = <<>> /\ registered' = <<>>
  /\ UNCHANGED <<sdkVars, propVars, provVars, unsubscribes, handles, lastExec>>
  /\ UNCHANGED <<panelVars, taskVars>>
  /\ UNCHANGED cardVars
  /\ UNCHANGED extVars

\* The component renders again with another descriptor array.
ToolRender(ds) ==
  /\ tMounted /\ ~ToolEffectPending /\ ds # schemas
  /\ Join(ds.names) = Join(schemas.names) \/ ToolRuns < MaxToolRuns
  /\ schemas' = ds /\ schemasRef' = RefAssign(ds)
  /\ UNCHANGED <<sdkVars, propVars, provVars, tMounted, toolDeps, unsubscribes,
                 registered, handles, lastExec>>
  /\ UNCHANGED <<panelVars, taskVars>>
  /\ UNCHANGED cardVars
  /\ UNCHANGED extVars

\* The registration effect runs: the cleanup of its last run, then its setup.
ToolFlush ==
  /\ ToolEffectPending
  /\ LET hs1 == ToolCleanup(handles, unsubscribes)
     IN IF pillar = 0
        THEN /\ handles' = hs1
             /\ unsubscribes' = <<>>
             /\ registered' = <<>>
        ELSE /\ handles' = ToolRegister(hs1, schemasRef)
             /\ unsubscribes' = [i \in 1..Len(schemasRef.names) |-> Len(hs1) + i]
             /\ registered' = schemasRef.names
  /\ toolDeps' = ToolDepsNow
  /\ UNCHANGED <<sdkVars, propVars, provVars, tMounted, schemas, schemasRef,
                 lastExec>>
  /\ UNCHANGED <<panelVars, taskVars>>
  /\ UNCHANGED cardVars
  /\ UNCHANGED extVars

\* The registration effect runs and the k-th defineTool call throws: map()
\* is abandoned, the handles of the entries before k are dropped with it, and
\* the effect returns no cleanup.
ToolFlushFails(k) ==
  /\ ToolEffectPending /\ pillar # 0 /\ thrown = "none"
  /\ k \in 1..Len(schemasRef.names)
  /\ handles' = ToolRegister(ToolCleanup(handles, unsubscribes),
                             [schemasRef EXCEPT
                                !.names = SubSeq(schemasRef.names, 1, k - 1)])
  /\ unsubscribes' = <<>>
  /\ registered' = <<>>
  /\ toolDeps' = ToolDepsNow
  /\ thrown' = "defineTool"
  /\ UNCHANGED <<sdkVars, propVars, mounted, gen, pillar, state, isPanelOpen,
                 isDOMScanningEnabled, initDeps, lcDeps, scanDeps, runs,
                 tMounted, schemas, schemasRef, lastExec>>
  /\ UNCHANGED <<panelVars, taskVars>>
  /\ UNCHANGED cardVars
  /\ UNCHANGED extVars

\* The component unmounts: the cleanup of the effect's last run.
ToolUnmount ==
  /\ tMounted /\ ~ToolEffectPending
  /\ tMounted' = FALSE
  /\ handles' = ToolCleanup(handles, unsubscribes)
  /\ unsubscribes' = <<>>
  /\ toolDeps' = <<>>
  /\ UNCHANGED <<sdkVars, propVars, provVars, schemas, schemasRef, registered,
                 lastExec>>
  /\ UNCHANGED <<panelVars, taskVars>>
  /\ UNCHANGED cardVars
  /\ UNCHANGED extVars

\* The client calls the execute of a tool that is registered with it.
Invoke(h) ==
  /\ h \in 1..Len(handles) /\ handles[h].calls = 0
  /\ handles[h].inst = instance
  /\ lastExec' = Execute(h)
  /\ UNCHANGED <<sdkVars, propVars, provVars, tMounted, schemas, schemasRef,
                 toolDeps, unsubscribes, registered, handles>>
  /\ UNCHANGED <<panelVars, taskVars>>
  /\ UNCHANGED cardVars
  /\ UNCHANGED extVars

\* ------------------------------------------------------------ PillarPanel
\* An isReady that is true as soon as the singleton reference is set.
isReadyWithReference == pillar # 0

\* isReady: state === "ready"
isReady == state = "ready"

\* [isReady, pillar]
PanelDepsNow == <<isReady, pillar>>

PanelEffectPending == pMounted /\ panelDeps # PanelDepsNow

\* A mount effect without the hasMounted ref.
PanelShouldMountAgain(ready, p, has) == ready /\ p # 0

\* A mount effect that does not wait for isReady.
PanelShouldMountEarly(ready, p, has) == p # 0 /\ ~has

\* if (!isReady || !pillar || !containerRef.current || hasMounted.current)
\* return; the container is attached by the time the effect runs.
PanelShouldMount(ready, p, has) == ready /\ p # 0 /\ ~has

\* <PillarPanel> mounts below the provider.
PanelMount ==
  /\ mounted /\ ~pMounted /\ pGen < MaxPanels
  /\ thrown = "none" /\ usePillarContext(mounted) = "none"
  /\ pMounted' = TRUE /\ pGen' = pGen + 1
  /\ hasMounted' = FALSE /\ panelDeps' = <<>>
  /\ UNCHANGED <<sdkVars, propVars, provVars, toolVars, panelMounts>>
  /\ UNCHANGED taskVars
  /\ UNCHANGED cardVars
  /\ UNCHANGED extVars

\* The mount effect of the last render runs.
PanelFlush ==
  /\ PanelEffectPending
  /\ IF PanelShouldMount(isReady, pillar, hasMounted)
     THEN /\ panelMounts' = Append(panelMounts, [inst |-> pillar,
                                                 container |-> pGen,
                                                 state |-> state,
                                                 onMount |-> panelDeps = <<>>])
          /\ hasMounted' = TRUE
     ELSE UNCHANGED <<panelMounts, hasMounted>>
  /\ panelDeps' = PanelDepsNow
  /\ UNCHANGED <<sdkVars, propVars, provVars, toolVars, pMounted, pGen>>
  /\ UNCHANGED taskVars
  /\ UNCHANGED cardVars
  /\ UNCHANGED extVars

\* <PillarPanel> unmounts; its effect has no cleanup.
PanelUnmount ==
  /\ pMounted /\ ~PanelEffectPending
  /\ pMounted' = FALSE /\ panelDeps' = <<>>
  /\ UNCHANGED <<sdkVars, propVars, provVars, toolVars, pGen, hasMounted,
                 panelMounts>>
  /\ UNCHANGED taskVars
  /\ UNCHANGED cardVars
  /\ UNCHANGED extVars

\* ------------------------------------------------------------ onTask prop
\* The values of the onTask prop: absent, or one of two callbacks.
OnTasks == {"undef", "onTask1", "onTask2"}

\* A render that leaves the ref at the callback it was created with.
TaskRefKept(t, old) == old

\* onTaskRef.current = onTask, on every render.
TaskRefAssign(t, old) == t

\* The parent renders the provider with another onTask prop.
ChangeOnTask(t) ==
  /\ mounted /\ ~EffectsPending /\ t \in OnTasks /\ t # onTask
  /\ onTask' = t
  /\ onTaskRef' = TaskRefAssign(t, onTaskRef)
  /\ UNCHANGED <<sdkVars, propVars, provVars, toolVars, panelVars, lastTask>>
  /\ UNCHANGED cardVars
  /\ UNCHANGED extVars

\* The singleton emits "task:execute": every callback attached for it runs
\* onTaskRef.current?.(task); callbacks of an unmounted provider reach a ref
\* nobody reads.
SdkTask ==
  /\ instance # 0
  /\ LET c == IF mounted THEN Count(listeners, "task:execute", instance, gen)
              ELSE 0
     IN lastTask' = [seq |-> 1 - lastTask.seq,
                     n |-> IF onTaskRef = "undef" THEN 0 ELSE c,
                     cb |-> IF c > 0 THEN onTaskRef ELSE "undef"]
  /\ UNCHANGED <<sdkVars, propVars, provVars, toolVars, panelVars, onTask,
                 onTaskRef>>
  /\ UNCHANGED cardVars
  /\ UNCHANGED extVars

\* ------------------------------------- a second instance of the bindings
\* Times the second provider mounts.
MaxPeers == 1

NoPeer == [mounted |-> FALSE, n |-> 0, pillar |-> 0, state |-> "uninitialized",
           isPanelOpen |-> FALSE, lcDeps |-> 0]

NoPeerTool == [mounted |-> FALSE, names |-> <<>>, deps |-> <<>>, unsubs |-> <<>>]

\* A second <PillarProvider> mounts beside the first while the singleton is
\* there, and its init effect runs: const existing = Pillar.getInstance();
\* if (existing) { setPillar(existing); setState(existing.state);
\* existing.on("panel:open", ...); existing.on("panel:close", ...) }.  Its
\* [pillar] effects ran with pillar null.
PeerMount ==
  /\ ~peer.mounted /\ peer.n < MaxPeers /\ instance # 0
  /\ peer' = [mounted |-> TRUE, n |-> peer.n + 1, pillar |-> instance,
              state |-> sdkState, isPanelOpen |-> FALSE, lcDeps |-> 0]
  /\ listeners' = PanelSubscribe(listeners, instance, PeerGen)
  /\ UNCHANGED <<instance, nInst, sdkState, panelOpen, sdkScan, initCalls,
                 destroyCalls, lastCall>>
  /\ UNCHANGED <<propVars, provVars, childVars, cardVars, peerTool, callVars>>

\* The [pillar] effects of the second provider run: the ready/error and the
\* task effect clean up and subscribe.
PeerFlush ==
  /\ peer.mounted /\ peer.lcDeps # peer.pillar
  /\ listeners' =
       TaskSetup(
         ReadyErrorSetup(
           TaskCleanup(ReadyErrorCleanup(listeners, peer.lcDeps, PeerGen),
                       peer.lcDeps, PeerGen),
           peer.pillar, PeerGen),
         peer.pillar, PeerGen)
  /\ peer' = [peer EXCEPT !.lcDeps = peer.pillar]
  /\ UNCHANGED <<instance, nInst, sdkState, panelOpen, sdkScan, initCalls,
                 destroyCalls, lastCall>>
  /\ UNCHANGED <<propVars, provVars, childVars, cardVars, peerTool, callVars>>

\* The second provider unmounts: the cleanups of its effects run.
PeerUnmount ==
  /\ peer.mounted /\ peer.lcDeps = peer.pillar /\ ~peerTool.mounted
  /\ listeners' = TaskCleanup(ReadyErrorCleanup(listeners, peer.lcDeps, PeerGen),
                              peer.lcDeps, PeerGen)
  /\ peer' = [NoPeer EXCEPT !.n = peer.n]
  /\ UNCHANGED <<instance, nInst, sdkState, panelOpen, sdkScan, initCalls,
                 destroyCalls, lastCall>>
  /\ UNCHANGED <<propVars, provVars, childVars, cardVars, peerTool, callVars>>

\* A component calling usePillarTool with the names ns mounts below the
\* second provider.
PeerToolMount(ns) ==
  /\ peer.mounted /\ ~peerTool.mounted /\ ToolRuns < MaxToolRuns
  /\ peerTool' = [mounted |-> TRUE, names |-> ns, deps |-> <<>>, unsubs |-> <<>>]
  /\ UNCHANGED <<sdkVars, propVars, provVars, childVars, cardVars, peer,
                 callVars>>

\* Its registration effect runs: the cleanup of the last run, then
\* if (!pillar) return; and one defineTool per entry.
PeerToolFlush ==
  /\ peerTool.mounted /\ peerTool.deps # <<peer.pillar>>
  /\ LET hs1 == ToolCleanup(handles, peerTool.unsubs)
         new == ToolRegister(<<>>, [ver |-> 1, names |-> peerTool.names])
     IN IF peer.pillar = 0
        THEN /\ handles' = hs1
             /\ peerTool' = [peerTool EXCEPT !.deps = <<peer.pillar>>,
                                             !.unsubs = <<>>]
        ELSE /\ handles' = hs1 \o [i \in 1..Len(new) |->
                                     [new[i] EXCEPT !.inst = peer.pillar]]
             /\ peerTool' = [peerTool EXCEPT
                               !.deps = <<peer.pillar>>,
                               !.unsubs = [i \in 1..Len(new) |-> Len(hs1) + i]]
  /\ UNCHANGED <<sdkVars, propVars, provVars, tMounted, schemas, schemasRef,
                 toolDeps, unsubscribes, registered, lastExec>>
  /\ UNCHANGED <<panelVars, taskVars, cardVars, peer, callVars>>

\* That component unmounts: the cleanup of its effect's last run.
PeerToolUnmount ==
  /\ peerTool.mounted /\ peerTool.deps = <<peer.pillar>>
  /\ handles' = ToolCleanup(handles, peerTool.unsubs)
  /\ peerTool' = NoPeerTool
  /\ UNCHANGED <<sdkVars, propVars, provVars, tMounted, schemas, schemasRef,
                 toolDeps, unsubscribes, registered, lastExec>>
  /\ UNCHANGED <<panelVars, taskVars, cardVars, peer, callVars>>

\* ------------------------------------------------------ usePillar().onTask
\* Task names a component registers handlers for.
TaskNames == {"add_source", "invite"}

\* onTask registrations the components make.
MaxTaskRegs == 2

NoRet == [fn |-> "none", kind |-> "none", id |-> 0]

\* An onTask that registers the handler twice.
OnTaskRegisterTwice(rs, n, p) ==
  IF p # 0 THEN rs \o <<[name |-> n, inst |-> p, live |-> TRUE],
                        [name |-> n, inst |-> p, live |-> TRUE]>>
  ELSE rs

\* context.pillar.onTask(taskName, handler), reached only with a reference.
OnTaskRegister(rs, n, p) ==
  IF p # 0 THEN Append(rs, [name |-> n, inst |-> p, live |-> TRUE]) ELSE rs

\* if (!context.pillar) return () => {}; return context.pillar.onTask(...):
\* a function of the hook's own, or the handle the singleton returned.
OnTaskReturn(rs, p) ==
  IF p # 0 THEN [fn |-> "onTask", kind |-> "external", id |-> Len(rs) + 1]
  ELSE [fn |-> "onTask", kind |-> "noop", id |-> 0]

\* A component below the provider calls the onTask of its latest render.
UseOnTask(n) ==
  /\ mounted /\ n \in TaskNames /\ Len(taskRegs) < MaxTaskRegs
  /\ thrown = "none" /\ usePillarContext(mounted) = "none"
  /\ taskRegs' = OnTaskRegister(taskRegs, n, pillar)
  /\ ret' = OnTaskReturn(taskRegs, pillar)
  /\ UNCHANGED <<sdkVars, propVars, provVars, childVars, cardVars, peerVars,
                 onCalls, help, lastEvents>>

\* The component calls the function onTask returned to it.
CallReturned ==
  /\ ret.fn = "onTask"
  /\ taskRegs' = IF ret.kind = "external"
                 THEN [taskRegs EXCEPT ![ret.id].live = FALSE]
                 ELSE taskRegs
  /\ ret' = NoRet
  /\ UNCHANGED <<sdkVars, propVars, provVars, childVars, cardVars, peerVars,
                 onCalls, help, lastEvents>>

\* ----------------------------------------------------------- useHelpPanel
\* The query and slug arguments the helpers are called with: undefined, the
\* empty string, and two other strings.
HelpArgs == {"undef", "", "billing", " "}

\* A call on the singleton: the method and what it was given.
Call(fn, arg) == [fn |-> fn, arg |-> arg]

\* if (query): undefined and "" are falsy, every other string is truthy.
Truthy(q) == q # "undef" /\ q # ""

\* open: pillar?.open(options)
CtxOpen(p, opts) == IF p # 0 THEN <<Call("open", opts)>> ELSE <<>>

\* search: pillar?.open({ search: query })
CtxSearch(p, q) == IF p # 0 THEN <<Call("open", <<"search", q>>)>> ELSE <<>>

\* navigate: pillar?.navigate(view, params)
CtxNavigate(p, view) == IF p # 0 THEN <<Call("navigate", view)>> ELSE <<>>

\* openArticle: pillar?.open({ article: slug })
CtxOpenArticle(p, s) ==
  IF p # 0 THEN <<Call("open", <<"article", s>>)>> ELSE <<>>

\* openCategory: pillar?.navigate("category", { slug })
CtxOpenCategory(p, s) ==
  IF p # 0 THEN <<Call("navigate", <<"category", "slug", s>>)>> ELSE <<>>

\* An openSearch that searches whatever it is given.
openSearchAlways(p, q) == CtxSearch(p, q)

\* openSearch: if (query) search(query); else open({ view: 'search' })
openSearch(p, q) ==
  IF Truthy(q) THEN CtxSearch(p, q) ELSE CtxOpen(p, <<"view", "search">>)

\* openChat: navigate('chat')
openChat(p) == CtxNavigate(p, <<"chat">>)

\* isOpen: isPanelOpen
isOpen == isPanelOpen

\* The helpers useHelpPanel derives or hands on.
Helpers == {"openSearch", "openChat", "openArticle", "openCategory"}

\* The context method a helper ends in.
HelperMethod(h, a) ==
  CASE h = "openSearch" -> IF Truthy(a) THEN "search" ELSE "open"
    [] h = "openChat" -> "navigate"
    [] OTHER -> h

NoHelp == [h |-> "none", arg |-> "undef", sent |-> <<>>]

\* A component below the provider calls helper h of useHelpPanel() with the
\* argument a (openChat takes none; a slug is a string).
UseHelper(h, a) ==
  /\ mounted /\ h \in Helpers /\ a \in HelpArgs
  /\ thrown = "none" /\ usePillarContext(mounted) = "none"
  /\ h = "openChat" => a = "undef"
  /\ h \in {"openArticle", "openCategory"} => a # "undef"
  /\ LET sent == CASE h = "openSearch" -> openSearch(pillar, a)
                   [] h = "openChat" -> openChat(pillar)
                   [] h = "openArticle" -> CtxOpenArticle(pillar, a)
                   [] OTHER -> CtxOpenCategory(pillar, a)
     IN /\ help' = [h |-> h, arg |-> a, sent |-> sent]
        /\ lastCall' = Forward(HelperMethod(h, a))
  /\ UNCHANGED <<instance, nInst, sdkState, panelOpen, sdkScan, listeners,
                 initCalls, destroyCalls>>
  /\ UNCHANGED <<propVars, provVars, childVars, cardVars, peerVars, taskRegs,
                 ret, onCalls, lastEvents>>

\* ------------------------------------------------------- specifications
InitCommon ==
  /\ instance = 0 /\ nInst = 0 /\ sdkState = "uninitialized"
  /\ panelOpen = FALSE /\ sdkScan = "false" /\ listeners = EmptyBag
  /\ initCalls = 0 /\ destroyCalls = 0 /\ lastCall = "none"
  /\ mounted = FALSE /\ gen = 0 /\ creds = "pk_A"
  /\ domScanning = "undef" /\ cfgScan = "undef"
  /\ pillar = 0 /\ state = "uninitialized" /\ isPanelOpen = FALSE
  /\ isDOMScanningEnabled = "false"
  /\ initDeps = "none" /\ lcDeps = 0 /\ scanDeps = "none"
  /\ runs = <<>> /\ thrown = "none"
  /\ tMounted = FALSE /\ schemas = NoSchemas /\ schemasRef = NoSchemas
  /\ toolDeps = <<>> /\ unsubscribes = <<>> /\ registered = <<>>
  /\ handles = <<>> /\ lastExec = NoExec
  /\ pMounted = FALSE /\ pGen = 0 /\ hasMounted = FALSE
  /\ panelDeps = <<>> /\ panelMounts = <<>>
  /\ onTask = "undef" /\ onTaskRef = "undef"
  /\ lastTask = [seq |-> 0, n |-> 0, cb |-> "undef"]
  /\ cards = "undef" /\ cardsDep = "none" /\ cardRun = 0
  /\ cardRegs = {} /\ roots = <<>> /\ rootsMap = {}
  /\ peer = NoPeer /\ peerTool = NoPeerTool
  /\ taskRegs = <<>> /\ ret = NoRet
  /\ onCalls = [attached |-> 0, dropped |-> FALSE]
  /\ help = NoHelp /\ lastEvents = <<>>

\* The provider of PillarProvider.tsx.
Init == InitCommon /\ variant = "tsx"

Lifecycle ==
  \/ \E k \in Keys, d \in ScanProps, c \in ScanProps : Mount(k, d, c)
  \/ \E k \in Keys : ChangeCreds(k)
  \/ FlushEffects
  \/ \E r \in 1..MaxRuns : ResolveInit(r)
  \/ \E r \in 1..MaxRuns : RejectInit(r)
  \/ Unmount
  \/ \E ev \in {"ready", "error"} : SdkEmit(ev)
  \/ \E b \in BOOLEAN : SdkPanel(b)
  \/ AppDestroy

Next == Lifecycle

Spec == Init /\ [][Next]_vars

\* React runs the passive effects of a committed render, and the promise
\* of Pillar.init settles.
SpecFair ==
  /\ Spec
  /\ WF_vars(FlushEffects)
  /\ \A r \in 1..MaxRuns : WF_vars(ResolveInit(r) \/ RejectInit(r))

\* A component with a registration hook below a provider that mounts once,
\* and components that use the hooks with no provider above them.
NextTool ==
  \/ \E k \in Keys : Mount(k, "undef", "undef")
  \/ FlushEffects
  \/ \E r \in 1..MaxRuns : ResolveInit(r)
  \/ \E ds \in Descs : ToolMount(ds)
  \/ \E ds \in Descs : ToolRender(ds)
  \/ ToolFlush
  \/ ToolUnmount
  \/ \E h \in 1..(MaxDescs * (MaxToolRuns + 1)) : Invoke(h)
  \/ \E h \in Hooks : UseOutside(h)

SpecTool == Init /\ [][NextTool]_vars

\* A PillarPanel below the provider.  React runs the passive effects of a
\* render before it renders again, so the panel's effect runs before the next
\* step of the provider, and the panel unmounts before the provider does.
NextPanel ==
  \/ ~PanelEffectPending /\ ~pMounted /\ Unmount
  \/ ~PanelEffectPending /\ (Lifecycle /\ (mounted' \/ ~mounted))
  \/ PanelMount
  \/ PanelFlush
  \/ PanelUnmount

SpecPanel == Init /\ [][NextPanel]_vars

\* The mount effect is not postponed for ever.
SpecPanelFair == SpecPanel /\ WF_vars(PanelFlush)

\* A component with a registration hook whose defineTool calls may throw.
NextToolFail ==
  \/ \E k \in Keys : Mount(k, "undef", "undef")
  \/ FlushEffects
  \/ \E r \in 1..MaxRuns : ResolveInit(r)
  \/ \E ds \in Descs : ToolMount(ds)
  \/ ToolFlush
  \/ \E k \in 1..MaxDescs : ToolFlushFails(k)
  \/ ToolUnmount

SpecToolFail == Init /\ [][NextToolFail]_vars

\* The provider with its onTask prop and the singleton's task events.
NextTask ==
  \/ \E k \in Keys : Mount(k, "undef", "undef")
  \/ FlushEffects
  \/ \E r \in 1..MaxRuns : ResolveInit(r)
  \/ Unmount
  \/ \E t \in OnTasks : ChangeOnTask(t)
  \/ SdkTask

SpecTask == Init /\ [][NextTask]_vars

\* The provider with a cards prop, and the client using the renderers.
NextCards ==
  \/ \E k \in Keys : Mount(k, "undef", "undef")
  \/ FlushEffects
  \/ \E r \in 1..MaxRuns : ResolveInit(r)
  \/ Unmount
  \/ \E m \in CardMaps : ChangeCards(m)
  \/ \E c \in Containers : RenderCard(c)
  \/ \E i \in 1..MaxRoots : CardCleanup(i)

SpecCards == Init /\ [][NextCards]_vars

\* Two providers mounted side by side on one singleton, each with a
\* component using a registration hook below it.  A provider unmounts after
\* the components below it.
NextPeers ==
  \/ \E k \in Keys : Mount(k, "undef", "undef")
  \/ FlushEffects
  \/ \E r \in 1..MaxRuns : ResolveInit(r)
  \/ ~tMounted /\ Unmount
  \/ \E ev \in {"ready", "error"} : SdkEmit(ev)
  \/ \E b \in BOOLEAN : SdkPanel(b)
  \/ PeerMount
  \/ PeerFlush
  \/ PeerUnmount
  \/ ToolMount([ver |-> 1, names |-> <<<<"a">>>>])
  \/ ToolFlush
  \/ ToolUnmount
  \/ PeerToolMount(<<<<"a">>>>)
  \/ PeerToolFlush
  \/ PeerToolUnmount

SpecPeers == Init /\ [][NextPeers]_vars

\* A component below the provider that calls usePillar().onTask.
NextUse ==
  \/ \E k \in Keys : Mount(k, "undef", "undef")
  \/ FlushEffects
  \/ \E r \in 1..MaxRuns : ResolveInit(r)
  \/ Unmount
  \/ AppDestroy
  \/ \E n \in TaskNames : UseOnTask(n)
  \/ CallReturned

SpecUse == Init /\ [][NextUse]_vars

\* A component below the provider that uses the helpers of useHelpPanel.
NextHelp ==
  \/ \E k \in Keys : Mount(k, "undef", "undef")
  \/ FlushEffects
  \/ \E r \in 1..MaxRuns : ResolveInit(r)
  \/ Unmount
  \/ \E b \in BOOLEAN : SdkPanel(b)
  \/ \E h \in Helpers, a \in HelpArgs : UseHelper(h, a)

SpecHelp == Init /\ [][NextHelp]_vars

\* The provider of unnamed/part_000 (DOM scanning) through one mount, with
\* the calls its descendants make through the context value.
InitScan == InitCommon /\ variant = "scan"

NextControl ==
  \/ \E k \in Keys, d \in ScanProps, c \in ScanProps : Mount(k, d, c)
  \/ FlushEffects
  \/ \E r \in 1..MaxRuns : ResolveInit(r)
  \/ \E d \in ScanProps : ChangeDomScanning(d)
  \/ \E m \in Methods, e \in Flag : Control(m, e)

SpecControl == InitScan /\ [][NextControl]_vars

\* ================================================================ claims
\* Lifecycle callbacks ("ready"/"error") of the mounted provider instance.
LifecycleSubs ==
  {l \in BagToSet(listeners) : l.gen = gen /\ l.ev \in {"ready", "error"}}

\* Every singleton the client created is still the current one.
NoTeardown == nInst = 0 \/ instance = nInst

\* C1: over a mount, unmount and remount with unchanged credentials (no init
\* failure, no teardown by the application) Pillar.init is called at most
\* once, also when the remount comes while the first init is pending.
C1_NoDuplicateInit ==
  (/\ \A r \in 1..Len(runs) :
        /\ runs[r].key = runs[1].key
        /\ runs[r].status \in {"pending", "resolved", "dropped", "reused"}
   /\ NoTeardown)
  => initCalls <= 1

InitFailsNow(r) ==
  /\ r \in 1..Len(runs')
  /\ \/ r \in 1..Len(runs) /\ runs[r].status = "pending"
          /\ runs'[r].status = "rejected"
     \/ r > Len(runs) /\ runs'[r].status = "threw"

\* The provider instance of run r is mounted and the run was not cleaned up.
RunMounted(r) ==
  IF r \in 1..Len(runs) THEN runs[r].mounted /\ Live(runs[r].gen) ELSE mounted

\* C3: a control method called while the provider's singleton reference is
\* absent changes nothing: no call reaches the client, the provider's state
\* stays as it was, nothing is thrown.
C3_AbsentControlIsNoOp ==
  [][\A m \in Methods, e \in Flag :
       (pillar = 0 /\ Control(m, e))
         => UNCHANGED <<sdkVars, propVars, provVars, childVars, cardVars,
                        peerVars>>]_vars

\* C4: an init failure of a run of the mounted provider is caught: the
\* mirrored state becomes "error", the singleton reference is not set, and
\* nothing is thrown.
C4_InitFailureCaught ==
  [][\A r \in 1..MaxRuns + 1 :
       (InitFailsNow(r) /\ RunMounted(r)) =>
         state' = "error" /\ pillar' = pillar /\ thrown' = "none"]_vars

\* C4 (as stated): an init failure of a run of the mounted provider leaves
\* the mirrored state "error" and the singleton reference absent.
C4_FailureLeavesAbsent ==
  [][\A r \in 1..MaxRuns + 1 :
       (InitFailsNow(r) /\ RunMounted(r)) =>
         state' = "error" /\ pillar' = 0 /\ thrown' = "none"]_vars

\* A first init was rejected while the provider was mounted.
C4_Witness ==
  /\ mounted /\ state = "error" /\ pillar = 0
  /\ \E r \in 1..Len(runs) : runs[r].status = "rejected" /\ runs[r].gen = gen

\* C5: while the provider is mounted and holds the singleton, a "ready" event
\* of the singleton updates the mirrored state through exactly one callback.
C5_ReadyUpdatesOnce ==
  [][(mounted /\ pillar # 0 /\ pillar = instance /\ SdkEmit("ready")) =>
       Count(listeners, "ready", pillar, gen) = 1 /\ state' = "ready"]_vars

\* C6 (as stated): in every state the lifecycle subscriptions of the
\* provider are on its current singleton reference only.
C6_SubsOnCurrentAlways ==
  mounted => \A l \in LifecycleSubs : l.inst = pillar

\* C6 (amended): once the effects of the latest render have run, the
\* lifecycle subscriptions of the provider are on its current singleton
\* reference only, one per event when that singleton is the live one.
C6_ResubscribesOnChange ==
  (mounted /\ lcDeps = pillar) =>
     /\ \A l \in LifecycleSubs : l.inst = pillar /\ listeners[l] = 1
     /\ (pillar # 0 /\ pillar = instance) =>
          Count(listeners, "ready", pillar, gen) = 1
          /\ Count(listeners, "error", pillar, gen) = 1

\* The reference went from instance 1 to instance 2 within one provider
\* instance, and the effects ran.
C6_Witness ==
  /\ mounted /\ gen = 1 /\ pillar = 2 /\ lcDeps = 2 /\ instance = 2
  /\ Len(runs) = 2 /\ runs[1].status = "resolved" /\ runs[2].status = "resolved"
  /\ Count(listeners, "ready", 2, 1) = 1 /\ Count(listeners, "ready", 1, 1) = 0

\* Handles of the registration hook that were not unregistered.
LiveHandles == {h \in 1..Len(handles) : handles[h].calls = 0}

\* C7: a hook (or PillarPanel) used with no provider above it throws the
\* usage error in that render, and nothing reaches the client or the
\* registrations.
C7_OutsideThrowsUsage ==
  [][\A h \in Hooks :
       UseOutside(h) =>
         /\ thrown' = "usage"
         /\ UNCHANGED <<sdkVars, handles, unsubscribes, registered>>]_vars

\* A hook was used outside a provider.
C7_Witness == thrown = "usage" /\ lastCall = "none" /\ initCalls = 0

\* C8: after a render that keeps the names and changes the execute callbacks,
\* the client's call of a registered handle runs the callback of the latest
\* render, and such a render neither unregisters nor registers a handle.
C8_LatestCallbackRuns ==
  [][/\ \A h \in 1..Len(handles) :
          (Invoke(h) /\ tMounted /\ schemas.names = registered) =>
            lastExec' = [h |-> h, ver |-> schemas.ver, name |-> handles[h].name]
     /\ (/\ tMounted /\ tMounted' /\ ~ToolEffectPending
         /\ schemas' # schemas /\ schemas'.names = schemas.names) =>
          handles' = handles /\ ~ToolEffectPending']_vars

\* A handle registered once, never unregistered, ran the callback of a later
\* render.
C8_Witness ==
  /\ tMounted /\ lastExec.h \in LiveHandles
  /\ lastExec.ver # 0 /\ lastExec.ver # handles[lastExec.h].ver
  /\ lastExec.name = handles[lastExec.h].name
  /\ Len(handles) = Len(registered)

\* C9: no handle is unregistered twice, and the live handles of the hook are
\* one per descriptor of its last registration while the component is
\* mounted, none after it unmounted.
C9_HandlesMatchRegistered ==
  /\ \A h \in 1..Len(handles) : handles[h].calls <= 1
  /\ Cardinality(LiveHandles) = IF tMounted THEN Len(registered) ELSE 0
  /\ tMounted =>
       \A i \in 1..Len(registered) :
         Cardinality({h \in LiveHandles : /\ handles[h].index = i
                                          /\ handles[h].name = registered[i]}) = 1

\* Two descriptors are registered after an earlier registration of one was
\* unregistered.
C9_Witness ==
  /\ tMounted /\ pillar # 0 /\ Len(registered) = 2 /\ Len(handles) = 3
  /\ handles[1].calls = 1 /\ LiveHandles = {2, 3}

\* C10: once the component that registered two descriptors of one name has
\* unmounted, each of the two handles was called exactly once.
C10_DuplicateNamesBothUnregistered ==
  (~tMounted /\ Len(registered) = 2 /\ registered[1] = registered[2]) =>
    LET n == Len(handles)
    IN /\ n >= 2
       /\ handles[n - 1].name = registered[1] /\ handles[n - 1].index = 1
       /\ handles[n].name = registered[2] /\ handles[n].index = 2
       /\ handles[n - 1].calls = 1 /\ handles[n].calls = 1

\* The component registered two descriptors named "a" and unmounted.
C10_Witness ==
  /\ ~tMounted /\ registered = << <<"a">>, <<"a">> >> /\ Len(handles) = 2
  /\ handles[1].calls = 1 /\ handles[2].calls = 1

\* Live handles of the hook registered under name n.
LiveFor(n) == {h \in LiveHandles : handles[h].name = n}

\* Entries of the array the hook last registered that carry name n.
EntriesFor(n) == {i \in 1..Len(registered) : registered[i] = n}

\* C11 (as stated): every name the mounted component declares has at most one
\* live registration made by the hook.
C11_OnePerName ==
  tMounted =>
    \A i \in 1..Len(schemas.names) :
      Cardinality(LiveFor(schemas.names[i])) <= 1

\* C11 (amended): while the component is mounted, a name has as many live
\* registrations as entries of the array last registered carry it, so at
\* most one for a name that array carries once.
C11_OnePerDeclaredEntry ==
  tMounted =>
    \A n \in Names : Cardinality(LiveFor(n)) = Cardinality(EntriesFor(n))

\* Two descriptors of different names are registered after a re-registration.
C11_Witness ==
  /\ tMounted /\ registered = << <<"a">>, <<"b">> >> /\ Len(handles) = 4
  /\ LiveFor(<<"a">>) = {3} /\ LiveFor(<<"b">>) = {4}

\* The mountPanelTo calls of PillarPanel instance g.
MountsOf(g) == {i \in 1..Len(panelMounts) : panelMounts[i].container = g}

\* C12: a PillarPanel instance calls mountPanelTo at most once in its
\* lifetime.
C12_PanelMountsOnce ==
  \A g \in 1..pGen : Cardinality(MountsOf(g)) <= 1

\* A PillarPanel that mounted the panel on a first singleton is still mounted,
\* the provider holds another singleton that is ready, and the effect ran.
C12_Witness ==
  /\ pMounted /\ ~PanelEffectPending /\ isReady /\ pillar # 0
  /\ \E i \in MountsOf(pGen) : panelMounts[i].inst # pillar

\* C13: every mountPanelTo call is made with the mirrored state "ready" and
\* the singleton reference set, and a mounted PillarPanel that sees the
\* mirrored state "ready" comes to have called mountPanelTo with its own
\* container.
C13_PanelMountsWhenReady ==
  /\ [](\A i \in 1..Len(panelMounts) :
          panelMounts[i].state = "ready" /\ panelMounts[i].inst # 0)
  /\ ((pMounted /\ isReady) ~> (MountsOf(pGen) # {}))

\* A PillarPanel called mountPanelTo in a run of its effect after the first.
C13_Witness ==
  /\ pMounted
  /\ \E i \in MountsOf(pGen) :
       ~panelMounts[i].onMount /\ panelMounts[i].state = "ready"

\* Runs of the init effect, for credentials k, that called Pillar.init.
InitCallsFor(k) ==
  {r \in 1..Len(runs) :
     runs[r].key = k /\ runs[r].status \notin {"reused", "threw"}}

\* C14: as long as the application tears no singleton down, every credential
\* set the init effect ran for has had exactly one Pillar.init call, and a
\* step that neither mounts the provider nor runs the init effect for changed
\* credentials makes no Pillar.init call.
C14_OnceInitPerCredentialSet ==
  /\ [](NoTeardown =>
          \A k \in Keys :
            (\E r \in 1..Len(runs) : runs[r].key = k /\ runs[r].status # "threw")
              => Cardinality(InitCallsFor(k)) = 1)
  /\ [][initCalls' # initCalls => initDeps # creds]_vars

\* C15: the run of the init effect that follows a change of the credentials
\* of a mounted provider (and does not fail in getInstance) calls Pillar.init
\* with the new credentials.
C15_CredentialChangeReinitializes ==
  [][(/\ mounted /\ initDeps \notin {"none", creds} /\ initDeps' = creds'
      /\ runs'[Len(runs')].status # "threw")
       => /\ initCalls' = initCalls + 1
          /\ runs'[Len(runs')].key = creds
          /\ runs'[Len(runs')].status = "pending"]_vars

\* C16: once the component has unmounted, no handle its registration hook
\* obtained is still registered, also when a defineTool call of the setup
\* threw.
C16_PartialSetupTornDown ==
  ~tMounted => LiveHandles = {}

\* C17: while no provider is mounted, the singleton carries no callback that
\* a provider attached.
C17_UnmountReleasesAll ==
  ~mounted => \A l \in BagToSet(listeners) : l.gen = 0

\* C18: while the provider is mounted and its reference is the live
\* singleton, isPanelOpen tells whether the singleton's panel is open.
C18_PanelOpenInSync ==
  (mounted /\ pillar # 0 /\ pillar = instance) => isPanelOpen = panelOpen

\* What handling a task event by one call of callback t looks like.
HandledOnceBy(t) ==
  /\ lastTask'.n = (IF t = "undef" THEN 0 ELSE 1)
  /\ lastTask'.cb = t

\* C19 (as stated): every "task:execute" event emitted while the provider is
\* mounted calls the onTask of the latest render once (nothing when it is
\* undefined), and a render with another onTask leaves the task listener
\* as it is.
C19_EveryTaskRunsOnTask ==
  [][/\ (SdkTask /\ mounted) => HandledOnceBy(onTask)
     /\ (\E t \in OnTasks : ChangeOnTask(t)) =>
          listeners' = listeners /\ ~EffectsPending']_vars

\* C19 (amended): the same, for the events emitted once the task effect has
\* run for the provider's current reference to the live singleton.
C19_LatestOnTaskRuns ==
  [][/\ (SdkTask /\ mounted /\ pillar # 0 /\ pillar = instance
           /\ lcDeps = pillar) => HandledOnceBy(onTask)
     /\ (\E t \in OnTasks : ChangeOnTask(t)) =>
          listeners' = listeners /\ ~EffectsPending']_vars

\* A task event ran a callback given in a render after the one whose effect
\* attached the listener.
C19_Witness ==
  /\ mounted /\ lastTask.n = 1 /\ lastTask.cb = "onTask2" /\ onTask = "onTask2"
  /\ Count(listeners, "task:execute", instance, gen) = 1 /\ gen = 1
  /\ Len(runs) = 1

\* C20: no root is unmounted twice, a root whose invocation's cleanup the
\* client called is unmounted, and once the card registrations are torn
\* down (no run of the card effect holds a registration) every root is.
C20_RootsUnmountedOnce ==
  \A i \in 1..Len(roots) :
    /\ roots[i].unmounts <= 1
    /\ roots[i].cleaned => roots[i].unmounts = 1
    /\ cardRegs = {} => roots[i].unmounts = 1

\* The Pillar.init promise of run r settles in this step.
InitSettles(r) == ResolveInit(r) \/ RejectInit(r)

\* What a settling init may set in the provider.
InitTargets == <<pillar, state, isPanelOpen, listeners>>

\* C21 (as stated): when the provider of a pending run has unmounted or has
\* been given other credentials, the settling of the run's init sets neither
\* the reference nor the mirrored state and attaches no listener.
C21_StaleInitIgnored ==
  [][\A r \in 1..Len(runs) :
       (InitSettles(r) /\ (~Live(runs[r].gen) \/ runs[r].key # creds))
         => UNCHANGED InitTargets]_vars

\* C21 (amended): the same once the cleanup of the run's effect has run,
\* which is at the unmount, or when the init effect runs again for the
\* changed credentials.
C21_CleanedUpInitIgnored ==
  [][\A r \in 1..Len(runs) :
       (InitSettles(r) /\ ~runs[r].mounted) => UNCHANGED InitTargets]_vars

\* An init of the mounted provider resolved after the effect had run again
\* for other credentials, and left the reference absent.
C21_Witness ==
  /\ mounted /\ pillar = 0 /\ instance # 0 /\ Len(runs) = 2
  /\ runs[1].status = "dropped" /\ runs[1].gen = gen /\ runs[2].gen = gen

\* The callbacks provider instance g holds on singleton i through the
\* handles its [pillar] effects keep.
SubsOf(b, i, g) ==
  <<Count(b, "ready", i, g), Count(b, "error", i, g),
    Count(b, "task:execute", i, g)>>

\* The handles in us are all live in hs.
AllLive(hs, us) == \A j \in 1..Len(us) : hs[us[j]].calls = 0

\* The first provider's effects ran and it holds the current singleton.
FirstSettled == mounted /\ lcDeps = pillar /\ pillar # 0 /\ pillar = instance

\* The same of the second provider.
PeerSettled ==
  peer.mounted /\ peer.lcDeps = peer.pillar /\ peer.pillar # 0
  /\ peer.pillar = instance

\* C22: with two instances of the bindings mounted on one singleton, the
\* unmount of one releases only what that instance acquired: the callbacks
\* and tool registrations of the other stay live, and the state the other
\* mirrors follows the events the singleton emits afterwards.
C22_UnmountReleasesOwnOnly ==
  [][/\ Unmount =>
          /\ \A i \in 1..MaxInst :
               SubsOf(listeners', i, PeerGen) = SubsOf(listeners, i, PeerGen)
          /\ peer' = peer /\ peerTool' = peerTool
          /\ PeerSettled => SubsOf(listeners', instance, PeerGen) = <<1, 1, 1>>
     /\ PeerUnmount =>
          /\ \A i \in 1..MaxInst :
               SubsOf(listeners', i, gen) = SubsOf(listeners, i, gen)
          /\ UNCHANGED <<pillar, state, isPanelOpen, unsubscribes>>
          /\ FirstSettled => SubsOf(listeners', instance, gen) = <<1, 1, 1>>
     /\ ToolUnmount =>
          /\ AllLive(handles, peerTool.unsubs)
               => AllLive(handles', peerTool.unsubs)
          /\ peerTool' = peerTool
     /\ PeerToolUnmount =>
          /\ AllLive(handles, unsubscribes) => AllLive(handles', unsubscribes)
          /\ UNCHANGED <<unsubscribes, registered>>
     /\ \A ev \in {"ready", "error"} :
          SdkEmit(ev) =>
            /\ PeerSettled /\ ~mounted => peer'.state = ev
            /\ FirstSettled /\ ~peer.mounted => state' = ev
    ]_vars

\* The second provider's component registered its tool (handle 1), then the
\* first provider's component registered and released its own (handle 2),
\* and the first provider unmounted; the second provider still holds its
\* callbacks, its tool is still registered, and its state is the "error"
\* the singleton emitted.
C22_Witness ==
  /\ ~mounted /\ gen = 1 /\ PeerSettled
  /\ SubsOf(listeners, instance, PeerGen) = <<1, 1, 1>>
  /\ SubsOf(listeners, instance, 1) = <<0, 0, 0>>
  /\ peerTool.mounted /\ peerTool.unsubs = <<1>>
  /\ Len(handles) = 2
  /\ handles[1].calls = 0 /\ handles[2].calls = 1
  /\ sdkState = "error" /\ peer.state = "error"

\* C23: in every state, the handle registered for the name N runs the
\* execute callback of a descriptor that is named N in the latest array;
\* it never runs a descriptor of another name and never reads an entry the
\* array does not have.
C23_HandleRunsOwnName ==
  [][\A h \in 1..Len(handles) :
       Invoke(h) => lastExec'.name = handles[h].name]_vars

\* The same once the registration effect of the latest render has run.
C23_SettledHandleRunsOwnName ==
  [][\A h \in 1..Len(handles) :
       (Invoke(h) /\ ~ToolEffectPending)
         => lastExec'.name = handles[h].name]_vars

\* The provider is mounted, holds the live singleton, and that singleton is
\* ready.
HoldsReady == mounted /\ pillar # 0 /\ pillar = instance /\ sdkState = "ready"

\* An init of the provider failed.
InitFailed ==
  \E r \in 1..Len(runs) : runs[r].status \in {"threw", "rejected"}

\* C24: when the singleton is ready while a mounted provider holds it, the
\* mirrored state becomes "ready" (unless the provider unmounts, the
\* singleton leaves the ready state or is replaced, or an init fails).
C24_ReadyEventuallyMirrored ==
  (HoldsReady /\ ~InitFailed) ~> (state = "ready" \/ ~HoldsReady \/ InitFailed)

\* The registration effect last ran with no singleton reference.
RanAbsent == toolDeps # <<>> /\ toolDeps[1] = 0

\* hs2 is hs1 followed by one live handle per entry of the names ns, in order.
OnePerEntry(hs1, hs2, ns) ==
  /\ Len(hs2) = Len(hs1) + Len(ns)
  /\ SubSeq(hs2, 1, Len(hs1)) = hs1
  /\ \A i \in 1..Len(ns) :
       /\ hs2[Len(hs1) + i].name = ns[i]
       /\ hs2[Len(hs1) + i].calls = 0
       /\ hs2[Len(hs1) + i].inst = pillar

\* C25: a registration effect that runs without a singleton reference
\* registers nothing; when the reference has arrived, its next run registers
\* each descriptor of the latest render exactly once; a component that
\* unmounts before the reference arrives registers and unregisters nothing,
\* then or later.
C25_RegistersWhenReferenceArrives ==
  [][/\ (ToolFlush /\ pillar = 0) => handles' = handles /\ unsubscribes' = <<>>
     /\ (ToolFlush /\ pillar # 0 /\ (RanAbsent \/ toolDeps = <<>>))
          => OnePerEntry(handles, handles', schemas.names)
     /\ (ToolUnmount /\ (RanAbsent \/ toolDeps = <<>>)) => handles' = handles
     /\ ~tMounted => handles' = handles
    ]_vars

\* The component mounted with two descriptors, its effect ran without a
\* reference and registered nothing, and the reference has now arrived.
C25_Witness ==
  /\ tMounted /\ RanAbsent /\ pillar # 0 /\ handles = <<>>
  /\ Len(schemas.names) = 2

\* The provider holds the live singleton.
HoldsSingleton == mounted /\ pillar # 0 /\ pillar = instance

\* C26: in the DOM scanning variant, whenever the provider holds the
\* singleton, the mirrored isDOMScanningEnabled flag is the DOM scanning
\* setting the singleton has.
C26_ScanFlagMirrorsSetting ==
  HoldsSingleton => isDOMScanningEnabled = sdkScan

\* The same once the effects of the latest render have run and no control
\* method was called.
C26_SettledScanFlagMirrorsSetting ==
  (HoldsSingleton /\ ~EffectsPending /\ lastCall = "none")
    => isDOMScanningEnabled = sdkScan

\* The sync effect of the DOM scanning setting is due in the next flush.
ScanSyncDue == lcDeps # pillar \/ scanDeps # domScanning

\* C27: the flag given to Pillar.init is the domScanning prop when it is
\* defined, else config.domScanning.enabled when defined, else false; a run
\* of the provider's effects after a change of the prop or of the reference
\* sets the singleton's setting to a defined prop; with an undefined prop the
\* provider's effects leave the setting of an existing singleton alone.
C27_PropOverridesConfig ==
  [][FlushEffects =>
       /\ (Len(runs') > Len(runs) /\ runs'[Len(runs')].status = "pending")
            => runs'[Len(runs')].scan =
                 (IF domScanning # "undef" THEN domScanning
                  ELSE IF cfgScan # "undef" THEN cfgScan ELSE "false")
       /\ (ScanSyncDue /\ domScanning # "undef" /\ pillar # 0
             /\ pillar = instance)
            => sdkScan' = domScanning /\ isDOMScanningEnabled' = domScanning
       /\ (domScanning = "undef" /\ instance # 0) => sdkScan' = sdkScan
    ]_vars

\* Init was given the prop (true) over the config (false); the prop then
\* changed to false and the sync effect applied it to the singleton.
C27_Witness ==
  /\ HoldsSingleton /\ ~EffectsPending /\ lastCall = "none"
  /\ cfgScan = "false" /\ Len(runs) = 1 /\ runs[1].scan = "true"
  /\ domScanning = "false" /\ sdkScan = "false"

\* With an undefined prop and the config asking for scanning, the singleton
\* scans and the provider's later effects left that alone.
C27_WitnessUndefined ==
  /\ HoldsSingleton /\ ~EffectsPending /\ lastCall = "none"
  /\ domScanning = "undef" /\ cfgScan = "true" /\ sdkScan = "true"

\* The live registrations are one per entry of the mapping m, made on the
\* singleton the provider holds.
OneRegPerEntry(rs, m) ==
  /\ \A t \in CardTypes(m) :
       Cardinality({g \in rs : g.type = t /\ g.inst = pillar}) = 1
  /\ \A g \in rs : g.type \in CardTypes(m) /\ g.inst = pillar

\* A step in which the cleanup of the card effect's last run is executed.
CardsCleanupStep == (FlushEffects /\ CardsDue) \/ Unmount

\* C28 (first part): in every state where the provider holds the singleton
\* and has a cards mapping, it holds exactly one live registration per entry
\* of that mapping.
C28_OneRegPerEntryAlways ==
  (HoldsSingleton /\ cards # "undef") => OneRegPerEntry(cardRegs, cards)

\* C28 (second part): when the mapping or the singleton reference changed,
\* or the provider unmounts, the cleanup removes every registration of the
\* previous mapping and unmounts every root created under it that is still
\* mounted.
C28_TeardownComplete ==
  [][CardsCleanupStep =>
       /\ cardRegs \cap cardRegs' = {}
       /\ \A i \in 1..Len(roots) :
            (roots[i].run = cardRun /\ roots[i].unmounts = 0)
              => roots'[i].unmounts = 1]_vars

\* The registrations part of the teardown alone.
C28_RegistrationsReplaced ==
  [][CardsCleanupStep => cardRegs \cap cardRegs' = {}]_vars

\* C29: usePillar().onTask(name, handler) called while the context holds no
\* singleton registers nothing and returns a function of its own that, when
\* called, changes nothing and throws nothing; called while the context
\* holds the singleton it makes exactly one onTask registration for that
\* name on it and returns the handle the singleton returned.
C29_OnTaskRegistersOnce ==
  [][/\ \A n \in TaskNames :
          UseOnTask(n) =>
            IF pillar = 0
            THEN /\ taskRegs' = taskRegs
                 /\ ret' = [fn |-> "onTask", kind |-> "noop", id |-> 0]
            ELSE /\ taskRegs' = Append(taskRegs, [name |-> n, inst |-> pillar,
                                                   live |-> TRUE])
                 /\ ret' = [fn |-> "onTask", kind |-> "external",
                            id |-> Len(taskRegs) + 1]
     /\ (CallReturned /\ ret.kind = "noop")
          => UNCHANGED <<taskRegs, thrown, sdkVars, provVars>>
    ]_vars

\* A handler was registered while the provider held the singleton; after a
\* remount, with the reference not yet set, onTask was called again and
\* returned the function that does nothing.
C29_Witness ==
  /\ mounted /\ pillar = 0 /\ instance # 0
  /\ Len(taskRegs) = 1 /\ taskRegs[1].live /\ taskRegs[1].inst = instance
  /\ ret = [fn |-> "onTask", kind |-> "noop", id |-> 0]

\* Number of callbacks attached to any singleton through on().
ConsumerSubs(b) ==
  BagCardinality([l \in {x \in DOMAIN b : x.gen = 0} |-> b[l]])

\* C30: the context's on(event, callback) attaches the callback and returns
\* the singleton's handle when the context holds the singleton, and attaches
\* nothing and returns a function of its own when it holds none; a callback
\* passed then is not attached by any later step, so the callbacks attached
\* never outnumber the calls that met a reference.
C30_OnWhileAbsentNeverAttached ==
  [][/\ \A e \in Flag :
          Control("on", e) =>
            IF pillar # 0
            THEN /\ listeners' = On(listeners, "ready", pillar, 0)
                 /\ ret' = [fn |-> "on", kind |-> "external", id |-> 0]
            ELSE /\ listeners' = listeners
                 /\ ret' = [fn |-> "on", kind |-> "noop", id |-> 0]
     /\ ConsumerSubs(listeners') <= onCalls'.attached
     /\ (\A e \in Flag : ~Control("on", e))
          => ConsumerSubs(listeners') <= ConsumerSubs(listeners)
    ]_vars

\* on() was called while the provider held no reference; the provider now
\* holds the singleton, its effects have run, and no callback is attached.
C30_Witness ==
  /\ HoldsSingleton /\ ~EffectsPending
  /\ onCalls.dropped /\ onCalls.attached = 0
  /\ ret = [fn |-> "on", kind |-> "noop", id |-> 0]
  /\ ConsumerSubs(listeners) = 0

\* The call on the singleton that helper h with argument a stands for.
ExpectedCall(h, a) ==
  CASE h = "openSearch" /\ a \notin {"undef", ""} -> Call("open", <<"search", a>>)
    [] h = "openSearch" /\ a \in {"undef", ""} -> Call("open", <<"view", "search">>)
    [] h = "openChat" -> Call("navigate", <<"chat">>)
    [] h = "openArticle" -> Call("open", <<"article", a>>)
    [] h = "openCategory" -> Call("navigate", <<"category", "slug", a>>)

\* C31 (as stated): every call of a useHelpPanel helper results in exactly
\* one call on the singleton: open({search: q}) for openSearch with a
\* non-empty q, open({view: 'search'}) for openSearch with an undefined or
\* empty query, navigate('chat') for openChat, open({article: s}) for
\* openArticle, navigate('category', {slug: s}) for openCategory; and isOpen
\* is the provider's isPanelOpen.
C31_HelpersForward ==
  [][/\ \A h \in Helpers, a \in HelpArgs :
          UseHelper(h, a) => help'.sent = <<ExpectedCall(h, a)>>
     /\ isOpen' = isPanelOpen'
    ]_vars

\* C31 (amended): a helper called while the context holds a singleton
\* reference results in exactly that one call on it; called while the
\* context holds none it results in no call; isOpen is the provider's
\* isPanelOpen.
C31_HelpersForwardWithReference ==
  [][/\ \A h \in Helpers, a \in HelpArgs :
          UseHelper(h, a) =>
            help'.sent = IF pillar # 0 THEN <<ExpectedCall(h, a)>> ELSE <<>>
     /\ isOpen' = isPanelOpen'
    ]_vars

\* openSearch("") was called while the provider held the singleton and
\* opened the search view; the panel had been opened and isOpen shows it.
C31_Witness ==
  /\ mounted /\ pillar # 0 /\ isOpen
  /\ help = [h |-> "openSearch", arg |-> "",
             sent |-> <<Call("open", <<"view", "search">>)>>]

\* The kind of the most recent lifecycle event the provider received, or
\* "none".
LastEvent == IF Len(lastEvents) = 0 THEN "none" ELSE lastEvents[Len(lastEvents)]

\* The provider's callback for ev runs in a step that emits ev.
Receives(ev) ==
  SdkEmit(ev) /\ mounted /\ Count(listeners, ev, instance, gen) > 0

\* A step in which the provider mounts or unmounts, or its init effect runs
\* or its init settles.
InitOrMountStep ==
  \/ (FlushEffects /\ initDeps # creds)
  \/ \E r \in 1..MaxRuns : InitSettles(r)
  \/ mounted' # mounted

\* C32 (as stated): isReady is true exactly when the mirrored state is
\* "ready", and once the provider has received a lifecycle event the
\* mirrored state is always the kind of the most recent one.
C32_StateIsLastEvent ==
  /\ isReady <=> state = "ready"
  /\ (mounted /\ LastEvent # "none") => state = LastEvent

\* C32 (amended): isReady is true exactly when the mirrored state is
\* "ready"; a received "error" sets the mirrored state to "error" and a
\* received "ready" sets it to "ready"; between events the mirrored state
\* changes only when the provider's init effect runs or its init settles.
C32_StateFollowsEvents ==
  [][/\ isReady' <=> state' = "ready"
     /\ \A ev \in {"ready", "error"} :
          Receives(ev) => state' = ev /\ LastEvent' = ev
                          /\ (isReady' <=> ev = "ready")
     /\ state' # state =>
          \/ \E ev \in {"ready", "error"} : Receives(ev)
          \/ InitOrMountStep
    ]_vars

\* The provider received "error" and then "ready": its mirrored state is
\* "ready" again and isReady is true.
C32_Witness ==
  /\ mounted /\ lastEvents = <<"error", "ready">>
  /\ state = "ready" /\ isReady /\ sdkState = "ready"
====
